---- MODULE Spec2Model ----
(***************************************************************************)
(* State-machine model of the ledger / consensus engine of the Blockchain  *)
(* class (blockchain.py) and of hash_block (utility/hash_util.py).          *)
(*                                                                         *)
(* Block, Transaction, Verification and Wallet are imported by             *)
(* blockchain.py but their modules are not part of the sources at hand;    *)
(* they are modelled from the written specification (sections 3, 4.1, 4.2) *)
(* and are marked as such below.                                           *)
(***************************************************************************)
EXTENDS Integers, Sequences, FiniteSets, TLC

(* ------------------------------------------------------------------------ *)
(* Bounds of the model                                                      *)
(* ------------------------------------------------------------------------ *)

\* mine_block / add_block are explored while the chain is shorter than this,
\* add_transaction while it is not longer.
MaxChain == 3

\* add_transaction admits while the open pool is shorter than this.
MaxPool == 2

\* the longest chain a peer answers GET /chain with
MaxPeerChain == 4

(* ------------------------------------------------------------------------ *)
(* Program constants and value universes                                    *)
(* ------------------------------------------------------------------------ *)

MINING_REWARD == 10

\* sender name of a reward transaction
MINING == "MINING"

\* public_key == None
NoKey == "None"

Participants == {"A", "B"}

PeerAddresses == {"p1", "p2"}

\* time() as read by the Block constructor when mine_block builds a block
Timestamps == {1}

\* HTTP status codes a peer may answer with; Unreachable stands for
\* requests.exceptions.ConnectionError
Unreachable == 0

StatusCodes == {200, 400, 409, 500}

PeerAnswers == StatusCodes \cup {Unreachable}

(* ------------------------------------------------------------------------ *)
(* Transaction and Block values                                             *)
(* ------------------------------------------------------------------------ *)

Transaction(sender, recipient, signature, amount) ==
    [sender |-> sender, recipient |-> recipient,
     signature |-> signature, amount |-> amount]

Block(index, previous_hash, transactions, proof, timestamp) ==
    [index |-> index, previous_hash |-> previous_hash,
     transactions |-> transactions, proof |-> proof, timestamp |-> timestamp]

\* previous_hash of the genesis block is the empty string; digests are
\* modelled as naturals, the empty string as -1.
EmptyString == -1

genesis_block == Block(0, EmptyString, <<>>, 100, 0)

Last(s) == s[Len(s)]

\* s[:-1]
AllButLast(s) == IF Len(s) = 0 THEN <<>> ELSE SubSeq(s, 1, Len(s) - 1)

(* ------------------------------------------------------------------------ *)
(* Hashing (utility/hash_util.py)                                           *)
(*                                                                         *)
(* sha256(...).hexdigest() is abstracted to a digest of six characters over *)
(* an alphabet of HashBase characters, a number below HashMod, computed by  *)
(* a multiplicative rolling hash over the canonical (key-sorted)            *)
(* serialisation.                                                           *)
(* ------------------------------------------------------------------------ *)

HashBase == 2

\* HashBase to the power of the digest length
HashMod == 64

HashMul == 37

\* character codes of the strings that occur in transactions
StrCode(s) ==
    CASE s = ""       -> 0
      [] s = "A"      -> 1
      [] s = "B"      -> 2
      [] s = "MINING" -> 3
      [] s = "sigA"   -> 4
      [] s = "sigB"   -> 5
      [] s = "forged" -> 6
      [] OTHER        -> 7

\* a digest (or the empty string) as it appears inside a serialisation
HashCode(h) == h + 1

\* the digest state after one more item of the serialisation has been fed
\* to the hash
Update(h, item) == ((h + item + 1) * HashMul) % HashMod

\* tx.to_ordered_dict() serialised with its keys in sorted order (amount,
\* recipient, sender, signature) and fed to the hash
UpdateTransaction(h, tx) ==
    Update(Update(Update(Update(h, tx.amount), StrCode(tx.recipient)),
                  StrCode(tx.sender)), StrCode(tx.signature))

RECURSIVE UpdateTransactions(_, _, _)
UpdateTransactions(h, txs, i) ==
    IF i > Len(txs) THEN h
    ELSE UpdateTransactions(UpdateTransaction(h, txs[i]), txs, i + 1)

\* hash_string_256(json.dumps(hashable_block, sort_keys=True).encode()): the
\* keys in sorted order are index, previous_hash, proof, timestamp,
\* transactions
hash_block(block) ==
    UpdateTransactions(
        Update(Update(Update(Update(0, block.index), HashCode(block.previous_hash)),
                      block.proof), block.timestamp),
        block.transactions, 1)

(* ------------------------------------------------------------------------ *)
(* Verification and Wallet (modelled from the specification)                *)
(* ------------------------------------------------------------------------ *)

\* the first and the second character of a digest
FirstChar(d) == d \div (HashMod \div HashBase)

SecondChar(d) == (d \div (HashMod \div (HashBase * HashBase))) % HashBase

\* guess-digest over (transactions, previous_hash, proof); valid iff the
\* first two characters are '0'
valid_proof(transactions, last_hash, proof) ==
    LET guess_hash == Update(Update(UpdateTransactions(0, transactions, 1),
                                    HashCode(last_hash)), proof)
    IN  FirstChar(guess_hash) = 0 /\ SecondChar(guess_hash) = 0

\* verify_chain: every block after genesis links to its predecessor's hash
\* and carries a valid proof over all but its last transaction
verify_chain(blockchain) ==
    \A i \in 2..Len(blockchain) :
        /\ blockchain[i].previous_hash = hash_block(blockchain[i - 1])
        /\ valid_proof(AllButLast(blockchain[i].transactions),
                       blockchain[i].previous_hash, blockchain[i].proof)

\* the signature a wallet holding `sender` produces
SignatureOf(sender) == IF sender = "A" THEN "sigA" ELSE "sigB"

\* Wallet.verify_transaction: the opaque signature check; a reward
\* transaction is exempt from it
Wallet_verify_transaction(tx) ==
    tx.sender = MINING \/ tx.signature = SignatureOf(tx.sender)

(* ------------------------------------------------------------------------ *)
(* State of one node                                                        *)
(* ------------------------------------------------------------------------ *)

VARIABLES
    chain,              \* self.__chain
    open_transactions,  \* self.__open_transactions
    peer_nodes,         \* self.__peer_nodes
    public_key,         \* self.public_key
    resolve_conflicts,  \* self.resolve_conflicts
    file,               \* blockchain-<node_id>.p : <<>> or <<snapshot>>
    pc,                 \* position of the running handler
    todo,               \* peers the running loop has not visited yet
    winner_chain,       \* local variable of resolve
    replace,            \* local variable of resolve
    op,                 \* the operation called last
    arg,                \* its argument
    ret,                \* its return value ("pending" while it runs)
    before,             \* chain length and open pool when it was called
    log,                \* its exchange with peers: {} before any, the answer
                        \* of the peer a relay loop asked last, the kinds of
                        \* answer resolve has got so far
    local               \* position and local variables of a mine_block call
                        \* that runs in a thread of its own

vars == <<chain, open_transactions, peer_nodes, public_key, resolve_conflicts,
          file, pc, todo, winner_chain, replace, op, arg, ret, before, log, local>>

NoArg == [none |-> TRUE]

\* no mine_block call runs in a thread of its own
NoLocals == [at |-> "idle"]

\* what an operation finds when it is called
Found == [len |-> Len(chain), pool |-> open_transactions, peers |-> peer_nodes]

\* pickle.dumps(save_data) written by save_data
Snapshot(c, ot, pn) == [chain |-> c, ot |-> ot, pn |-> pn]

\* save_data that forgets the open transactions
save_data_WithoutPool(c, ot, pn) == file' = <<Snapshot(c, <<>>, pn)>>

\* save_data, called once the in-memory state has become (c, ot, pn)
save_data(c, ot, pn) == file' = <<Snapshot(c, ot, pn)>>

\* the rest of __init__ after the defaults: load_data
load_data ==
    IF file = <<>>
    THEN /\ chain' = <<genesis_block>>
         /\ open_transactions' = <<>>
         /\ peer_nodes' = {}
    ELSE /\ chain' = file[1].chain
         /\ open_transactions' = file[1].ot
         /\ peer_nodes' = file[1].pn

Init ==
    /\ chain = <<genesis_block>>
    /\ open_transactions = <<>>
    /\ peer_nodes = {}
    /\ public_key \in {NoKey, "A"}
    /\ resolve_conflicts = FALSE
    /\ file = <<>>
    /\ pc = "idle"
    /\ todo = {}
    /\ winner_chain = <<>>
    /\ replace = FALSE
    /\ op = "init"
    /\ arg = NoArg
    /\ ret = "None"
    /\ before = [len |-> 1, pool |-> <<>>, peers |-> {}]
    /\ log = {}
    /\ local = NoLocals

\* a node process that is started again: __init__ with the same identity
Restart ==
    /\ pc = "idle"
    /\ load_data
    /\ resolve_conflicts' = FALSE
    /\ op' = "init" /\ arg' = NoArg /\ ret' = "None" /\ log' = {}
    /\ before' = Found
    /\ UNCHANGED <<public_key, file, pc, todo, winner_chain, replace, local>>

(* ------------------------------------------------------------------------ *)
(* Balance and proof of work                                                *)
(* ------------------------------------------------------------------------ *)

RECURSIVE SumSent(_, _, _)
SumSent(txs, participant, i) ==
    IF i > Len(txs) THEN 0
    ELSE (IF txs[i].sender = participant THEN txs[i].amount ELSE 0)
         + SumSent(txs, participant, i + 1)

RECURSIVE SumReceived(_, _, _)
SumReceived(txs, participant, i) ==
    IF i > Len(txs) THEN 0
    ELSE (IF txs[i].recipient = participant THEN txs[i].amount ELSE 0)
         + SumReceived(txs, participant, i + 1)

RECURSIVE ChainSent(_, _, _)
ChainSent(c, participant, i) ==
    IF i > Len(c) THEN 0
    ELSE SumSent(c[i].transactions, participant, 1) + ChainSent(c, participant, i + 1)

RECURSIVE ChainReceived(_, _, _)
ChainReceived(c, participant, i) ==
    IF i > Len(c) THEN 0
    ELSE SumReceived(c[i].transactions, participant, 1)
         + ChainReceived(c, participant, i + 1)

\* get_balance that credits what is pending for the participant
get_balance_CreditsPending(participant) ==
    ChainReceived(chain, participant, 1) + SumReceived(open_transactions, participant, 1)
        - ChainSent(chain, participant, 1) - SumSent(open_transactions, participant, 1)

\* get_balance that leaves the open transactions out
get_balance_MinedOnly(participant) ==
    ChainReceived(chain, participant, 1) - ChainSent(chain, participant, 1)

get_balance(participant) ==
    LET amount_sent == ChainSent(chain, participant, 1)
                       + SumSent(open_transactions, participant, 1)
        amount_received == ChainReceived(chain, participant, 1)
    IN  amount_received - amount_sent

\* Verification.verify_transaction(transaction, self.get_balance)
verify_transaction(transaction) ==
    transaction.sender = MINING \/ get_balance(transaction.sender) >= transaction.amount

\* the while loop of proof_of_work
RECURSIVE FindProof(_, _, _)
FindProof(transactions, last_hash, proof) ==
    IF valid_proof(transactions, last_hash, proof) THEN proof
    ELSE FindProof(transactions, last_hash, proof + 1)

proof_of_work == FindProof(open_transactions, hash_block(Last(chain)), 0)

(* ------------------------------------------------------------------------ *)
(* Inputs                                                                   *)
(* ------------------------------------------------------------------------ *)

\* the transactions a client or a relaying peer may submit: a signed
\* transfer and one whose signature does not verify
TxInputs ==
    { Transaction("A", "B", "sigA", 5),
      Transaction("A", "B", "forged", 3) }

\* the reward transaction mine_block builds for identity `key`
RewardFor(key) == Transaction(MINING, key, "", MINING_REWARD)

(* ------------------------------------------------------------------------ *)
(* add_transaction                                                          *)
(* ------------------------------------------------------------------------ *)

\* a test for status 400 alone
DeclinedBadRequestOnly(answer) == answer = 400

\* a 400 or 500 answer: the peer declined
Declined(answer) == answer = 400 \/ answer = 500

add_transaction(recipient, sender, signature, amount, is_receiving) ==
    LET transaction == Transaction(sender, recipient, signature, amount) IN
    /\ pc = "idle"
    /\ Len(chain) <= MaxChain
    /\ Len(open_transactions) < MaxPool \/ ~verify_transaction(transaction)
    /\ op' = "add_transaction"
    /\ before' = Found
    /\ arg' = [tx |-> transaction, is_receiving |-> is_receiving]
    /\ log' = {}
    /\ UNCHANGED <<winner_chain, replace, local>>
    /\ IF verify_transaction(transaction)
       THEN /\ open_transactions' = Append(open_transactions, transaction)
            /\ save_data(chain, open_transactions', peer_nodes)
            /\ IF is_receiving \/ peer_nodes = {}
               THEN pc' = "idle" /\ todo' = {} /\ ret' = "True"
               ELSE pc' = "tx_relay" /\ todo' = peer_nodes /\ ret' = "pending"
            /\ UNCHANGED <<chain, peer_nodes, public_key, resolve_conflicts>>
       ELSE /\ ret' = "False"
            /\ UNCHANGED <<chain, open_transactions, peer_nodes, public_key,
                           resolve_conflicts, file, pc, todo>>

\* a broadcast-transaction loop that treats 409 as the broadcast-block loop does
relay_transaction_FlagsConflict ==
    /\ pc = "tx_relay"
    /\ \E node \in todo, answer \in PeerAnswers :
        /\ log' = {answer}
        /\ resolve_conflicts' = IF answer = 409 THEN TRUE ELSE resolve_conflicts
        /\ IF Declined(answer)
           THEN pc' = "idle" /\ todo' = {} /\ ret' = "False"
           ELSE /\ todo' = todo \ {node}
                /\ IF todo' = {}
                   THEN pc' = "idle" /\ ret' = "True"
                   ELSE UNCHANGED <<pc, ret>>
    /\ UNCHANGED <<chain, open_transactions, peer_nodes, public_key,
                   file, op, arg, before, winner_chain, replace, local>>

\* one iteration of the broadcast-transaction loop
relay_transaction ==
    /\ pc = "tx_relay"
    /\ \E node \in todo, answer \in PeerAnswers :
        /\ log' = {answer}
        /\ IF Declined(answer)
           THEN pc' = "idle" /\ todo' = {} /\ ret' = "False"
           ELSE /\ todo' = todo \ {node}
                /\ IF todo' = {}
                   THEN pc' = "idle" /\ ret' = "True"
                   ELSE UNCHANGED <<pc, ret>>
    /\ UNCHANGED <<chain, open_transactions, peer_nodes, public_key,
                   resolve_conflicts, file, op, arg, before, winner_chain, replace, local>>

(* ------------------------------------------------------------------------ *)
(* mine_block                                                               *)
(* ------------------------------------------------------------------------ *)

\* mine_block that puts the reward in front of the copied transactions
MinedBlockRewardFirst(timestamp) ==
    Block(Len(chain), hash_block(Last(chain)),
          <<RewardFor(public_key)>> \o open_transactions, proof_of_work, timestamp)

\* the block mine_block builds when the clock reads `timestamp`
MinedBlock(timestamp) ==
    LET last_block == Last(chain)
        hashed_block == hash_block(last_block)
        proof == proof_of_work
        reward_transaction == RewardFor(public_key)
        copied_transactions == Append(open_transactions, reward_transaction)
    IN  Block(Len(chain), hashed_block, copied_transactions, proof, timestamp)

\* a signature check that stops after the first transaction
FirstSignatureValid(transactions) ==
    transactions = <<>> \/ Wallet_verify_transaction(transactions[1])

\* the signature check over the copied pool
AllSignaturesValid(transactions) ==
    \A i \in 1..Len(transactions) : Wallet_verify_transaction(transactions[i])

mine_block ==
    /\ pc = "idle"
    /\ Len(chain) < MaxChain
    /\ op' = "mine_block"
    /\ UNCHANGED <<winner_chain, replace, local>>
    /\ before' = Found
    /\ arg' = NoArg
    /\ log' = {}
    /\ IF public_key = NoKey \/ ~AllSignaturesValid(open_transactions)
       THEN /\ ret' = "None"
            /\ UNCHANGED <<chain, open_transactions, peer_nodes, public_key,
                           resolve_conflicts, file, pc, todo>>
       ELSE /\ \E timestamp \in Timestamps :
                chain' = Append(chain, MinedBlock(timestamp))
            /\ open_transactions' = <<>>
            /\ save_data(chain', open_transactions', peer_nodes)
            /\ IF peer_nodes = {}
               THEN pc' = "idle" /\ todo' = {} /\ ret' = "Block"
               ELSE pc' = "block_relay" /\ todo' = peer_nodes /\ ret' = "pending"
            /\ UNCHANGED <<peer_nodes, public_key, resolve_conflicts>>

\* one iteration of the broadcast-block loop
relay_block ==
    /\ pc = "block_relay"
    /\ \E node \in todo, answer \in PeerAnswers :
        /\ log' = {answer}
        /\ IF Declined(answer)
           THEN /\ pc' = "idle" /\ todo' = {} /\ ret' = "None"
                /\ UNCHANGED resolve_conflicts
           ELSE /\ resolve_conflicts' = IF answer = 409 THEN TRUE ELSE resolve_conflicts
                /\ todo' = todo \ {node}
                /\ IF todo' = {}
                   THEN pc' = "idle" /\ ret' = "Block"
                   ELSE UNCHANGED <<pc, ret>>
    /\ UNCHANGED <<chain, open_transactions, peer_nodes, public_key, file, op, arg,
                   before, winner_chain, replace, local>>

(* ------------------------------------------------------------------------ *)
(* add_block                                                                *)
(* ------------------------------------------------------------------------ *)

\* add_block without the comparison of hashes
BlockAcceptedAnyTail(block) ==
    valid_proof(AllButLast(block.transactions), block.previous_hash, block.proof)

\* add_block without the proof check
BlockAcceptedAnyProof(block) == hash_block(Last(chain)) = block.previous_hash

\* the two checks of add_block: proof over all but the last transaction, and
\* the declared previous hash against the hash of the local tail
BlockAccepted(block) ==
    LET transactions == block.transactions
        proof_is_valid == valid_proof(AllButLast(transactions),
                                      block.previous_hash, block.proof)
        hashes_match == hash_block(Last(chain)) = block.previous_hash
    IN  ~(~proof_is_valid \/ ~hashes_match)

\* list.remove(x) inside try/except ValueError: the first element equal to x
\* goes, a list without x stays as it is
RECURSIVE RemoveFirst(_, _)
RemoveFirst(s, x) ==
    IF s = <<>> THEN <<>>
    ELSE IF Head(s) = x THEN Tail(s)
    ELSE <<Head(s)>> \o RemoveFirst(Tail(s), x)

\* the inner loop: for open_tx in stored_transactions
RECURSIVE RemoveMatching(_, _, _, _)
RemoveMatching(pool, stored_transactions, incoming_tx, j) ==
    IF j > Len(stored_transactions) THEN pool
    ELSE LET open_tx == stored_transactions[j]
             matches == /\ open_tx.sender = incoming_tx.sender
                        /\ open_tx.recipient = incoming_tx.recipient
                        /\ open_tx.amount = incoming_tx.amount
                        /\ open_tx.signature = incoming_tx.signature
         IN  RemoveMatching(IF matches THEN RemoveFirst(pool, open_tx) ELSE pool,
                            stored_transactions, incoming_tx, j + 1)

\* the outer loop: for incoming_tx in block['transactions']
RECURSIVE RemoveIncoming(_, _, _, _)
RemoveIncoming(pool, stored_transactions, incoming, i) ==
    IF i > Len(incoming) THEN pool
    ELSE RemoveIncoming(RemoveMatching(pool, stored_transactions, incoming[i], 1),
                        stored_transactions, incoming, i + 1)

\* a removal loop that takes out one pending copy per incoming transaction
RECURSIVE RemoveOnePerIncoming(_, _, _)
RemoveOnePerIncoming(pool, incoming, i) ==
    IF i > Len(incoming) THEN pool
    ELSE RemoveOnePerIncoming(RemoveFirst(pool, incoming[i]), incoming, i + 1)

PoolAfterBlockOnePerIncoming(block) ==
    RemoveOnePerIncoming(open_transactions, block.transactions, 1)

\* the open pool after add_block has accepted `block`
PoolAfterBlock(block) ==
    RemoveIncoming(open_transactions, open_transactions, block.transactions, 1)

add_block(block) ==
    /\ pc = "idle"
    /\ Len(chain) < MaxChain
    /\ op' = "add_block"
    /\ before' = Found
    /\ arg' = [block |-> block]
    /\ log' = {}
    /\ IF ~BlockAccepted(block)
       THEN /\ ret' = "False"
            /\ UNCHANGED <<chain, open_transactions, file>>
       ELSE /\ chain' = Append(chain, Block(block.index, block.previous_hash,
                                            block.transactions, block.proof,
                                            block.timestamp))
            /\ open_transactions' = PoolAfterBlock(block)
            /\ save_data(chain', open_transactions', peer_nodes)
            /\ ret' = "True"
    /\ UNCHANGED <<peer_nodes, public_key, resolve_conflicts, pc, todo,
                   winner_chain, replace, local>>

\* a digest other than h
OtherDigest(h) == (h + 1) % HashMod

\* a block a peer mined on top of chain c over the pending transactions txs
PeerBlock(c, txs) ==
    Block(Len(c), hash_block(Last(c)), Append(txs, RewardFor("B")),
          FindProof(txs, hash_block(Last(c)), 0), 1)

\* pending transactions of the peers whose blocks reach this node
PeerPools ==
    { <<>>,
      <<Transaction("A", "B", "sigA", 5)>> }

\* a peer's pool that holds the same transaction twice
PeerPoolTwice ==
    <<Transaction("A", "B", "sigA", 5), Transaction("A", "B", "sigA", 5)>>

\* the blocks peers broadcast to this node: blocks mined on the local tail,
\* and blocks with another index, another previous hash or another proof
BlockInputs ==
    LET good == PeerBlock(chain, <<>>)
        other_hash == OtherDigest(hash_block(Last(chain)))
    IN  { PeerBlock(chain, txs) : txs \in PeerPools }
            \cup { [PeerBlock(chain, PeerPoolTwice) EXCEPT !.index = @ + 5],
                   Block(Len(chain), other_hash, <<RewardFor("B")>>,
                         FindProof(<<>>, other_hash, 0), 1),
                   [good EXCEPT !.proof = @ + 1] }

(* ------------------------------------------------------------------------ *)
(* resolve                                                                  *)
(* ------------------------------------------------------------------------ *)

\* a winner test that looks at the length alone
AdoptsLonger(node_chain, winner) == Len(node_chain) > Len(winner)

\* the condition under which a fetched chain becomes the winner
Adopts(node_chain, winner) ==
    Len(node_chain) > Len(winner) /\ verify_chain(node_chain)

\* c extended by n blocks mined by a peer
RECURSIVE Extended(_, _)
Extended(c, n) ==
    IF n = 0 THEN c ELSE Extended(Append(c, PeerBlock(c, <<>>)), n - 1)

\* c with the proof of its last block changed
BadProof(c) == [c EXCEPT ![Len(c)].proof = @ + 1]

\* a first block that is not this program's genesis block
ForeignGenesis == Block(0, EmptyString, <<>>, 7, 0)

\* chains of peers that never heard of this node
PeerChain3BadProof == BadProof(Extended(<<genesis_block>>, 2))

PeerChainLong == Extended(<<genesis_block>>, MaxPeerChain - 1)

PeerChain3Foreign == Extended(<<ForeignGenesis>>, 2)

\* what GET /chain of a peer may give: one of the chains above, the local
\* chain with one more block, or no connection
PeerAnswerKinds == {"bad_proof", "long", "foreign", "next", "unreachable"}

\* the chain behind an answer, for a node whose chain is c
FetchedChain(kind, c) ==
    CASE kind = "bad_proof" -> PeerChain3BadProof
      [] kind = "long"      -> PeerChainLong
      [] kind = "foreign"   -> PeerChain3Foreign
      [] kind = "next"      -> IF Len(c) < MaxPeerChain THEN Extended(c, 1) ELSE c
      [] OTHER              -> <<>>

\* resolve that clears the open pool whatever the outcome
PoolAfterResolveCleared(replaced) == <<>>

\* the open pool resolve leaves
PoolAfterResolve(replaced) == IF replaced THEN <<>> ELSE open_transactions

\* the statements of resolve after its loop, with the loop's result
ResolveReturns(winner, replaced) ==
    /\ resolve_conflicts' = FALSE
    /\ chain' = winner
    /\ open_transactions' = PoolAfterResolve(replaced)
    /\ save_data(chain', open_transactions', peer_nodes)
    /\ ret' = IF replaced THEN "True" ELSE "False"
    /\ pc' = "idle"
    /\ todo' = {}
    /\ winner_chain' = <<>>
    /\ replace' = FALSE

\* the call of resolve up to its loop
resolve ==
    /\ pc = "idle"
    /\ op' = "resolve"
    /\ before' = Found
    /\ arg' = NoArg
    /\ log' = {}
    /\ IF peer_nodes = {}
       THEN ResolveReturns(chain, FALSE)
       ELSE /\ winner_chain' = chain
            /\ replace' = FALSE
            /\ pc' = "resolving"
            /\ todo' = peer_nodes
            /\ ret' = "pending"
            /\ UNCHANGED <<chain, open_transactions, resolve_conflicts, file>>
    /\ UNCHANGED <<peer_nodes, public_key, local>>

\* one iteration of the loop of resolve: GET /chain of one peer
fetch_chain ==
    /\ pc = "resolving"
    /\ \E node \in todo, kind \in PeerAnswerKinds :
        LET node_chain == FetchedChain(kind, chain)
            adopted == kind # "unreachable" /\ Adopts(node_chain, winner_chain)
            winner == IF adopted THEN node_chain ELSE winner_chain
            replaced == adopted \/ replace
        IN  /\ log' = log \cup {kind}
            /\ IF todo = {node}
               THEN ResolveReturns(winner, replaced)
               ELSE /\ winner_chain' = winner
                    /\ replace' = replaced
                    /\ todo' = todo \ {node}
                    /\ UNCHANGED <<chain, open_transactions, resolve_conflicts, file,
                                   pc, ret>>
    /\ UNCHANGED <<peer_nodes, public_key, op, arg, before, local>>

(* ------------------------------------------------------------------------ *)
(* Peer set                                                                 *)
(* ------------------------------------------------------------------------ *)

add_peer_node(node) ==
    /\ pc = "idle"
    /\ peer_nodes' = peer_nodes \cup {node}
    /\ save_data(chain, open_transactions, peer_nodes')
    /\ op' = "add_peer_node" /\ arg' = [node |-> node] /\ ret' = "None" /\ log' = {}
    /\ before' = Found
    /\ UNCHANGED <<chain, open_transactions, public_key, resolve_conflicts, pc, todo,
                   winner_chain, replace, local>>

\* remove_peer_node with set.remove in place of set.discard: an address that
\* is not in the set raises KeyError before save_data
remove_peer_node_KeyError(node) ==
    /\ pc = "idle"
    /\ peer_nodes' = peer_nodes \ {node}
    /\ IF node \in peer_nodes
       THEN save_data(chain, open_transactions, peer_nodes') /\ ret' = "None"
       ELSE UNCHANGED file /\ ret' = "KeyError"
    /\ op' = "remove_peer_node" /\ arg' = [node |-> node] /\ log' = {}
    /\ before' = Found
    /\ UNCHANGED <<chain, open_transactions, public_key, resolve_conflicts, pc, todo,
                   winner_chain, replace, local>>

remove_peer_node(node) ==
    /\ pc = "idle"
    /\ peer_nodes' = peer_nodes \ {node}
    /\ save_data(chain, open_transactions, peer_nodes')
    /\ op' = "remove_peer_node" /\ arg' = [node |-> node] /\ ret' = "None" /\ log' = {}
    /\ before' = Found
    /\ UNCHANGED <<chain, open_transactions, public_key, resolve_conflicts, pc, todo,
                   winner_chain, replace, local>>

(* ------------------------------------------------------------------------ *)
(* Specification                                                            *)
(* ------------------------------------------------------------------------ *)

AddTransaction ==
    \E tx \in TxInputs, is_receiving \in BOOLEAN :
        add_transaction(tx.recipient, tx.sender, tx.signature, tx.amount, is_receiving)

AddBlock == \E block \in BlockInputs : add_block(block)

AddPeerNode == \E node \in PeerAddresses : add_peer_node(node)

RemovePeerNode == \E node \in PeerAddresses : remove_peer_node(node)

Next ==
    \/ AddTransaction
    \/ relay_transaction
    \/ mine_block
    \/ relay_block
    \/ AddBlock
    \/ resolve
    \/ fetch_chain
    \/ AddPeerNode
    \/ RemovePeerNode
    \/ Restart

Spec == Init /\ [][Next]_vars

(* ------------------------------------------------------------------------ *)
(* A node with identity M whose snapshot holds a block mined by A           *)
(* ------------------------------------------------------------------------ *)

\* genesis and the block A mined on it over an empty pool
GrantChain ==
    <<genesis_block,
      Block(1, hash_block(genesis_block), <<RewardFor("A")>>,
            FindProof(<<>>, hash_block(genesis_block), 0), 1)>>

\* the transactions clients and peers submit to this node: a signed transfer
\* and a transfer that names MINING as its sender
LedgerTxInputs ==
    { Transaction("A", "B", "sigA", 3),
      Transaction(MINING, "B", "", 7) }

\* __init__("M", node_id) with blockchain-<node_id>.p holding GrantChain
InitLedger ==
    /\ chain = GrantChain
    /\ open_transactions = <<>>
    /\ peer_nodes = {}
    /\ public_key = "M"
    /\ resolve_conflicts = FALSE
    /\ file = <<Snapshot(GrantChain, <<>>, {})>>
    /\ pc = "idle"
    /\ todo = {}
    /\ winner_chain = <<>>
    /\ replace = FALSE
    /\ op = "init"
    /\ arg = NoArg
    /\ ret = "None"
    /\ before = [len |-> 2, pool |-> <<>>, peers |-> {}]
    /\ log = {}
    /\ local = NoLocals

SubmitTransaction ==
    \E tx \in LedgerTxInputs, is_receiving \in BOOLEAN :
        add_transaction(tx.recipient, tx.sender, tx.signature, tx.amount, is_receiving)

NextLedger ==
    \/ SubmitTransaction
    \/ relay_transaction
    \/ mine_block
    \/ relay_block
    \/ AddPeerNode
    \/ RemovePeerNode
    \/ Restart

SpecLedger == InitLedger /\ [][NextLedger]_vars

(* ------------------------------------------------------------------------ *)
(* mine_block in a thread of its own, without a lock                        *)
(* ------------------------------------------------------------------------ *)

\* The node of this specification has no peers, so the relay loops of
\* add_transaction and mine_block have nothing to iterate over.  The
\* statements of mine_block run in five steps; add_transaction and add_block
\* of other request threads run between them.

\* a block built with the reward in front of the copied transactions
ThreadBlockRewardFirst(l, timestamp) ==
    Block(Len(chain), l.hashed_block, <<RewardFor(public_key)>> \o l.copied,
          l.proof, timestamp)

\* Block(len(self.__chain), hashed_block, copied_transactions, proof)
ThreadBlock(l, timestamp) ==
    Block(Len(chain), l.hashed_block, Append(l.copied, RewardFor(public_key)),
          l.proof, timestamp)

\* the identity check, last_block and hashed_block
mine_read_tail ==
    /\ pc = "idle"
    /\ local.at = "idle"
    /\ Len(chain) < MaxChain
    /\ op' = "mine_block" /\ arg' = NoArg /\ log' = {} /\ before' = Found
    /\ IF public_key = NoKey
       THEN ret' = "None" /\ UNCHANGED local
       ELSE /\ ret' = "pending"
            /\ local' = [at |-> "search", hashed_block |-> hash_block(Last(chain))]
    /\ UNCHANGED <<chain, open_transactions, peer_nodes, public_key,
                   resolve_conflicts, file, pc, todo, winner_chain, replace>>

\* proof_of_work: it reads the tail and the open transactions again
mine_search ==
    /\ local.at = "search"
    /\ local' = [at |-> "copy",
                 hashed_block |-> local.hashed_block,
                 proof |-> proof_of_work,
                 searched |-> open_transactions,
                 searched_hash |-> hash_block(Last(chain))]
    /\ UNCHANGED <<chain, open_transactions, peer_nodes, public_key,
                   resolve_conflicts, file, pc, todo, winner_chain, replace,
                   op, arg, ret, before, log>>

\* copied_transactions and the signature loop
mine_copy ==
    /\ local.at = "copy"
    /\ IF ~AllSignaturesValid(open_transactions)
       THEN /\ local' = NoLocals
            /\ op' = "mine_block" /\ arg' = NoArg /\ ret' = "None" /\ log' = {}
       ELSE /\ local' = [at |-> "append",
                         hashed_block |-> local.hashed_block,
                         proof |-> local.proof,
                         searched |-> local.searched,
                         searched_hash |-> local.searched_hash,
                         copied |-> open_transactions]
            /\ UNCHANGED <<op, arg, ret, log>>
    /\ UNCHANGED <<chain, open_transactions, peer_nodes, public_key,
                   resolve_conflicts, file, pc, todo, winner_chain, replace, before>>

\* the reward, the Block and self.__chain.append(block)
mine_append ==
    /\ local.at = "append"
    /\ \E timestamp \in Timestamps :
           chain' = Append(chain, ThreadBlock(local, timestamp))
    /\ local' = [at |-> "clear", copied |-> local.copied, position |-> Len(chain) + 1]
    /\ UNCHANGED <<open_transactions, peer_nodes, public_key,
                   resolve_conflicts, file, pc, todo, winner_chain, replace,
                   op, arg, ret, before, log>>

\* self.__open_transactions = [], save_data, the empty relay loop, return
mine_clear ==
    /\ local.at = "clear"
    /\ peer_nodes = {}
    /\ open_transactions' = <<>>
    /\ save_data(chain, open_transactions', peer_nodes)
    /\ local' = [at |-> "idle", copied |-> local.copied, position |-> local.position,
                 cleared |-> open_transactions]
    /\ op' = "mine_block" /\ arg' = NoArg /\ ret' = "Block" /\ log' = {}
    /\ UNCHANGED <<chain, peer_nodes, public_key, resolve_conflicts, pc, todo,
                   winner_chain, replace, before>>

NextThreads ==
    \/ AddTransaction
    \/ AddBlock
    \/ mine_read_tail
    \/ mine_search
    \/ mine_copy
    \/ mine_append
    \/ mine_clear

SpecThreads == Init /\ [][NextThreads]_vars

(* ------------------------------------------------------------------------ *)
(* Properties                                                               *)
(* ------------------------------------------------------------------------ *)

\* the transactions of the blocks of c, in chain order
RECURSIVE ChainTransactions(_, _)
ChainTransactions(c, i) ==
    IF i > Len(c) THEN <<>> ELSE c[i].transactions \o ChainTransactions(c, i + 1)

RECURSIVE TotalAmount(_)
TotalAmount(txs) ==
    IF txs = <<>> THEN 0 ELSE Head(txs).amount + TotalAmount(Tail(txs))

\* received in mined blocks, minus sent in mined blocks, minus sent in the
\* open transactions
Spendable(participant) ==
    LET mined == ChainTransactions(chain, 1)
    IN  TotalAmount(SelectSeq(mined, LAMBDA t : t.recipient = participant))
        - TotalAmount(SelectSeq(mined, LAMBDA t : t.sender = participant))
        - TotalAmount(SelectSeq(open_transactions, LAMBDA t : t.sender = participant))

\* tx equals some transaction of block in sender, recipient, amount and signature
InBlock(tx, block) ==
    \E j \in 1..Len(block.transactions) :
        /\ block.transactions[j].sender = tx.sender
        /\ block.transactions[j].recipient = tx.recipient
        /\ block.transactions[j].amount = tx.amount
        /\ block.transactions[j].signature = tx.signature

\* C1: in every reachable state each block after the genesis block names the
\* hash of its predecessor and carries a proof that is valid for all but its
\* last transaction, that is, verify_chain(chain) holds.
C1_ChainIntegrity ==
    /\ \A i \in 2..Len(chain) :
          /\ chain[i].previous_hash = hash_block(chain[i - 1])
          /\ valid_proof(AllButLast(chain[i].transactions),
                         chain[i].previous_hash, chain[i].proof)
    /\ verify_chain(chain)

\* a chain holding a block mined here and, after it, a block accepted from a peer
C1_Witness ==
    /\ op = "add_block" /\ ret = "True"
    /\ Len(chain) = 3
    /\ Last(chain[2].transactions).recipient = "A"
    /\ Last(chain[3].transactions).recipient = "B"

\* C2: add_block on a block whose previous_hash is not the hash of the local
\* tail, or whose proof is not valid over all but its last transaction,
\* returns false and leaves chain, open pool, peer set and resolve_conflicts
\* as they were.
C2_AddBlockRejects ==
    [][ ( /\ op' = "add_block"
          /\ \/ arg'.block.previous_hash # hash_block(Last(chain))
             \/ ~valid_proof(AllButLast(arg'.block.transactions),
                             arg'.block.previous_hash, arg'.block.proof) )
        => /\ ret' = "False"
           /\ UNCHANGED <<chain, open_transactions, peer_nodes, resolve_conflicts>>
      ]_vars

\* a rejected block whose proof is valid for the hash it declares, which is
\* not the hash of the local tail, while transactions are pending
C2_Witness ==
    /\ op = "add_block" /\ ret = "False"
    /\ arg.block.previous_hash # hash_block(Last(chain))
    /\ valid_proof(AllButLast(arg.block.transactions),
                   arg.block.previous_hash, arg.block.proof)
    /\ open_transactions # <<>>
    /\ Len(chain) = before.len

\* C3: add_transaction for a sender other than MINING whose balance (received
\* in mined blocks, minus sent in mined blocks, minus sent in the open
\* transactions) is below the amount returns false, contacts no peer and
\* leaves chain, open pool and peer set as they were.
C3_UnaffordableRejected ==
    [][ ( /\ pc = "idle"
          /\ op' = "add_transaction"
          /\ arg'.tx.sender # MINING
          /\ Spendable(arg'.tx.sender) < arg'.tx.amount )
        => /\ ret' = "False"
           /\ pc' = "idle"
           /\ log' = {}
           /\ UNCHANGED <<chain, open_transactions, peer_nodes>>
      ]_vars

\* 10 received on the chain, 8 pending, a local request for 5 rejected on a
\* node that has peers
C3_Witness ==
    /\ op = "add_transaction" /\ ret = "False" /\ pc = "idle"
    /\ ~arg.is_receiving
    /\ arg.tx.amount = 5
    /\ TotalAmount(SelectSeq(ChainTransactions(chain, 1),
                             LAMBDA t : t.recipient = arg.tx.sender)) = 10
    /\ TotalAmount(SelectSeq(open_transactions,
                             LAMBDA t : t.sender = arg.tx.sender)) = 8
    /\ peer_nodes # {}
    /\ open_transactions = before.pool

\* C4: when resolve returns, the local chain is one of maximal length among
\* the chain it started with and the fetched chains that pass verify_chain;
\* it differs from the chain it started with only if it is a fetched chain
\* that is strictly longer and passes verify_chain; and resolve returns true
\* exactly when the chain was replaced.
C4_LongestValidChain ==
    [][ (op' = "resolve" /\ pc' = "idle")
        => LET fetched == { FetchedChain(kind, chain) :
                                kind \in log' \ {"unreachable"} }
               candidates == {chain} \cup { c \in fetched : verify_chain(c) }
           IN  /\ chain' \in candidates
               /\ \A c \in candidates : Len(c) <= Len(chain')
               /\ chain' # chain =>
                     /\ chain' \in fetched
                     /\ Len(chain') > Len(chain)
                     /\ verify_chain(chain')
               /\ (ret' = "True") <=> (chain' # chain)
      ]_vars

\* local length 2, peers with a length-3 chain of invalid proof and a valid
\* length-4 chain: the length-4 chain has been adopted
C4_Witness ==
    /\ op = "resolve" /\ pc = "idle" /\ ret = "True"
    /\ before.len = 2
    /\ log = {"bad_proof", "long"}
    /\ Len(PeerChain3BadProof) = 3 /\ ~verify_chain(PeerChain3BadProof)
    /\ Len(PeerChainLong) = 4
    /\ chain = PeerChainLong

C6_AddBlockAppends ==
    [][ (op' = "add_block" /\ ret' = "True")
        => /\ chain' = Append(chain, arg'.block)
           /\ \A i \in 1..Len(open_transactions') :
                 ~InBlock(open_transactions'[i], arg'.block)
           /\ open_transactions' =
                 SelectSeq(open_transactions, LAMBDA t : ~InBlock(t, arg'.block))
      ]_vars

\* an accepted block with one copy of a transaction the pool held twice
C6_Witness ==
    /\ op = "add_block" /\ ret = "True"
    /\ Len(before.pool) = 2
    /\ before.pool[1] = before.pool[2]
    /\ Len(arg.block.transactions) = 2
    /\ arg.block.transactions[1] = before.pool[1]
    /\ open_transactions = <<>>

\* C7: while resolve runs the peer set stays as it is; when it returns,
\* resolve_conflicts is false, the open pool is empty if the chain was
\* replaced, and chain and pool are as before if it was not.
C7_ResolveSideEffects ==
    [][ /\ op' = "resolve" => peer_nodes' = peer_nodes
        /\ (op' = "resolve" /\ pc' = "idle")
           => /\ resolve_conflicts' = FALSE
              /\ chain' # chain => open_transactions' = <<>>
              /\ chain' = chain => open_transactions' = open_transactions
              /\ (open_transactions # <<>> /\ open_transactions' = <<>>)
                    => chain' # chain
      ]_vars

\* a replacement that cleared a non-empty pool on a node with peers
C7_Witness ==
    /\ op = "resolve" /\ pc = "idle" /\ ret = "True"
    /\ before.pool # <<>>
    /\ Len(chain) > before.len
    /\ open_transactions = <<>>
    /\ ~resolve_conflicts
    /\ peer_nodes # {}

\* C8: mine_block called without an identity, or with an open transaction
\* whose signature does not verify, returns none, contacts no peer and leaves
\* chain, open pool, peer set and resolve_conflicts as they were.
C8_MineAborts ==
    [][ ( /\ pc = "idle"
          /\ op' = "mine_block"
          /\ \/ public_key = NoKey
             \/ \E i \in 1..Len(open_transactions) :
                   ~Wallet_verify_transaction(open_transactions[i]) )
        => /\ ret' = "None"
           /\ pc' = "idle"
           /\ log' = {}
           /\ UNCHANGED <<chain, open_transactions, peer_nodes, resolve_conflicts>>
      ]_vars

\* an identity, peers to relay to, a forged transaction behind a signed one
C8_Witness ==
    /\ op = "mine_block" /\ ret = "None" /\ pc = "idle" /\ log = {}
    /\ public_key # NoKey
    /\ peer_nodes # {}
    /\ Len(open_transactions) = 2
    /\ Wallet_verify_transaction(open_transactions[1])
    /\ ~Wallet_verify_transaction(open_transactions[2])
    /\ Len(chain) = before.len

\* C9: mine_block has appended the block and emptied the pool when it turns
\* to its peers; it then asks one peer per step; a 400 or 500 answer ends the
\* call with none, with the peers not yet asked left out and the block kept;
\* a 409 answer sets resolve_conflicts and the loop goes on; a peer that
\* cannot be reached changes nothing; the call returns the block when no
\* peer declined.
C9_BlockRelayProtocol ==
    [][ /\ (pc = "idle" /\ pc' = "block_relay")
           => /\ op' = "mine_block"
              /\ log' = {}
              /\ todo' = peer_nodes
              /\ Len(chain') = Len(chain) + 1
              /\ open_transactions' = <<>>
        /\ (pc = "idle" /\ op' = "mine_block" /\ chain' # chain /\ peer_nodes = {})
           => ret' = "Block"
        /\ pc = "block_relay"
           => \E node \in todo, answer \in PeerAnswers :
                /\ log' = {answer}
                /\ UNCHANGED <<chain, open_transactions, peer_nodes>>
                /\ answer \in {400, 500}
                      => /\ pc' = "idle"
                         /\ ret' = "None"
                         /\ UNCHANGED resolve_conflicts
                /\ answer \notin {400, 500}
                      => /\ todo' = todo \ {node}
                         /\ resolve_conflicts' = (resolve_conflicts \/ answer = 409)
                         /\ IF todo = {node}
                            THEN pc' = "idle" /\ ret' = "Block"
                            ELSE pc' = "block_relay" /\ ret' = ret
      ]_vars

\* a block that stayed in the chain after a peer answered 500, on a node
\* with two peers
C9_Witness ==
    /\ op = "mine_block" /\ pc = "idle" /\ ret = "None"
    /\ log = {500}
    /\ Cardinality(peer_nodes) = 2
    /\ Len(chain) = before.len + 1
    /\ Last(Last(chain).transactions) = RewardFor(public_key)
    /\ open_transactions = <<>>

C11_Balance ==
    /\ \A p \in {"A", "B", "M"} : get_balance(p) = Spendable(p)
    /\ ( /\ op = "mine_block"
         /\ before.len = 2
         /\ before.pool = <<Transaction("A", "B", "sigA", 3)>>
         /\ Len(chain) # before.len )
       => /\ Len(chain) = 3
          /\ get_balance("M") = 10
          /\ get_balance("A") = 7
          /\ get_balance("B") = 3

\* M has mined A->B 3 on the chain that grants A 10
C11_Witness ==
    /\ op = "mine_block" /\ ret = "Block"
    /\ before.len = 2
    /\ before.pool = <<Transaction("A", "B", "sigA", 3)>>
    /\ Len(chain) = 3
    /\ get_balance("A") = 7

\* C12: add_peer_node inserts the address and remove_peer_node discards it:
\* adding an address a second time leaves the set as the first call left it,
\* removing an address that is not in the set leaves the set as it was and
\* returns normally, removing an address right after adding it leaves it
\* absent; both write the snapshot and neither touches the chain, the open
\* pool or resolve_conflicts.
C12_PeerSetOperations ==
    [][ /\ op' = "add_peer_node"
           => /\ peer_nodes' = peer_nodes \cup {arg'.node}
              /\ (op = "add_peer_node" /\ arg = arg') => peer_nodes' = peer_nodes
        /\ op' = "remove_peer_node"
           => /\ peer_nodes' = peer_nodes \ {arg'.node}
              /\ arg'.node \notin peer_nodes => peer_nodes' = peer_nodes
              /\ (op = "add_peer_node" /\ arg = arg') => arg'.node \notin peer_nodes'
        /\ op' \in {"add_peer_node", "remove_peer_node"}
           => /\ ret' = "None"
              /\ file' = <<Snapshot(chain, open_transactions, peer_nodes')>>
              /\ UNCHANGED <<chain, open_transactions, resolve_conflicts>>
      ]_vars

\* an address that was not in the set has been removed on a node that holds
\* blocks, a pending transaction and another peer
C12_Witness ==
    /\ op = "remove_peer_node"
    /\ arg.node \notin before.peers
    /\ peer_nodes = before.peers
    /\ peer_nodes # {}
    /\ file = <<Snapshot(chain, open_transactions, peer_nodes)>>
    /\ Len(chain) >= 2
    /\ open_transactions # <<>>

\* C13: when add_transaction has returned false, the open pool is the pool
\* the call found, and the snapshot on disk does not hold the transaction
\* either; this covers a transaction that passed verification and was then
\* declined by a peer with 400 or 500.
C13_RejectedLeavesPool ==
    (op = "add_transaction" /\ pc = "idle" /\ ret = "False")
        => /\ open_transactions = before.pool
           /\ file # <<>> => file[1].ot = before.pool

\* C14: in every reachable state the index of every block is its position
\* in the chain, counted from 0 at the genesis block.
C14_IndexIsPosition ==
    \A i \in 1..Len(chain) : chain[i].index = i - 1

\* C15: in every reachable state the chain is not empty and its first block
\* is the genesis block: index 0, previous_hash '', no transactions, proof
\* 100, timestamp 0.
C15_GenesisFirst ==
    /\ Len(chain) >= 1
    /\ chain[1] = [index |-> 0, previous_hash |-> EmptyString, transactions |-> <<>>,
                   proof |-> 100, timestamp |-> 0]

\* C16: in every reachable state, for every participant other than MINING,
\* what it sent in mined blocks plus what it sent in open transactions does
\* not exceed what it received in mined blocks.
C16_NoNegativeBalance ==
    \A p \in Participants :
        LET mined == ChainTransactions(chain, 1)
        IN  TotalAmount(SelectSeq(mined, LAMBDA t : t.sender = p))
              + TotalAmount(SelectSeq(open_transactions, LAMBDA t : t.sender = p))
            <= TotalAmount(SelectSeq(mined, LAMBDA t : t.recipient = p))

\* C17: with the statements of mine_block interleaved with add_transaction
\* and add_block of other threads, the chain stops passing verify_chain, or
\* an admitted transaction ends up in neither the pool nor a block, and this
\* comes from the interleaving: when the tail and the pool are still what
\* mine_block read, the appended block keeps verify_chain true, and when
\* the pool is still the copied one, all that is cleared is in the block.
C17_UnsafeOnlyWhenInterleaved ==
    [][ /\ (local.at = "append" /\ local'.at = "clear")
           => ( ( /\ verify_chain(chain)
                  /\ local.searched = local.copied
                  /\ local.searched_hash = local.hashed_block
                  /\ local.hashed_block = hash_block(Last(chain)) )
                => verify_chain(chain') )
        /\ (local.at = "clear" /\ local'.at = "idle")
           => /\ open_transactions' = <<>>
              /\ open_transactions = local.copied
                    => AllButLast(chain[local.position].transactions) = open_transactions
      ]_vars

\* a mine_block call has returned, the chain does not pass verify_chain, and
\* a transaction it cleared from the pool is in no block
C17_Witness ==
    /\ local.at = "idle"
    /\ local # NoLocals
    /\ op = "mine_block" /\ ret = "Block"
    /\ ~verify_chain(chain)
    /\ open_transactions = <<>>
    /\ \E i \in 1..Len(local.cleared) :
          LET mined == ChainTransactions(chain, 1)
          IN  \A j \in 1..Len(mined) : mined[j] # local.cleared[i]

C19_FlagGatesMining ==
    [][ /\ (~resolve_conflicts /\ resolve_conflicts')
           => (pc = "block_relay" /\ op' = "mine_block" /\ log' = {409})
        /\ (resolve_conflicts /\ ~resolve_conflicts')
           => op' \in {"resolve", "init"}
        /\ (resolve_conflicts /\ pc = "idle" /\ op' = "mine_block")
           => chain' = chain
      ]_vars

\* C20: on a node that only admits transactions and mines, every block
\* after the genesis block holds exactly one transaction with sender MINING,
\* as its last transaction and with amount 10, so the amounts sent by MINING
\* on the chain add up to 10 for each mined block.
C20_RewardsOnlyByMining ==
    /\ \A i \in 2..Len(chain) :
          LET txs == chain[i].transactions
          IN  /\ Len(txs) >= 1
              /\ Last(txs).sender = "MINING"
              /\ Last(txs).amount = 10
              /\ \A j \in 1..(Len(txs) - 1) : txs[j].sender # "MINING"
    /\ TotalAmount(SelectSeq(ChainTransactions(chain, 1), LAMBDA t : t.sender = "MINING"))
          = 10 * (Len(chain) - 1)

====
